---- MODULE Spec2Model ----
(***************************************************************************)
(* Model of the maze game of src/src/main.rs: the MazeGame struct, its     *)
(* constructor, movement, win detection, breadth-first path search, path   *)
(* display and reset.                                                      *)
(***************************************************************************)
EXTENDS Integers, Sequences, FiniteSets, TLC

\* ---------------------------------------------------------------- bounds
\* Dimensions of the arbitrary grids of SpecArb and the largest number of
\* open cells (besides start and end) such a grid holds.
ArbW == 5
ArbH == 3
MaxOpen == 3
\* The largest width and height MazeGame::new is called with in SpecDims.
MaxW == 6
MaxH == 6

\* ------------------------------------------------------ program constants
\* main(): let width = 20; let height = 15;
MainWidth == 20
MainHeight == 15

\* ------------------------------------------------------------------ types
\* enum Cell
Cell == {"Empty", "Wall", "Start", "End", "Path", "Player"}

\* struct Position { x: usize, y: usize }
Position(x, y) == [x |-> x, y |-> y]

\* The predefined maze_layout of MazeGame::new, one tuple of characters per
\* string; chars().enumerate() index x is tuple index x + 1.
maze_layout == <<
    <<"#","#","#","#","#","#","#","#","#","#","#","#","#","#","#","#","#","#","#","#">>,
    <<"#","S"," "," "," "," "," "," "," "," "," "," "," "," "," "," "," "," "," ","#">>,
    <<"#"," ","#","#","#","#","#"," ","#","#","#","#","#"," ","#","#","#","#","#"," ","#">>,
    <<"#"," ","#"," "," "," ","#"," ","#"," "," "," ","#"," ","#"," "," "," ","#"," ","#">>,
    <<"#"," ","#"," ","#","#","#"," ","#"," ","#","#","#"," ","#"," ","#","#","#"," ","#">>,
    <<"#"," ","#"," "," "," ","#"," ","#"," "," "," ","#"," ","#"," "," "," ","#"," ","#">>,
    <<"#"," ","#","#","#","#","#"," ","#","#","#","#","#"," ","#","#","#","#","#"," ","#">>,
    <<"#"," ","#"," "," "," ","#"," "," "," "," "," ","#"," "," "," "," "," ","#"," ","#">>,
    <<"#"," ","#"," ","#"," ","#","#","#","#","#"," ","#"," ","#","#","#","#","#"," ","#">>,
    <<"#"," ","#"," ","#"," "," "," "," "," ","#"," ","#"," "," "," "," "," ","#"," ","#">>,
    <<"#"," ","#"," ","#","#","#","#","#"," ","#"," ","#","#","#","#","#"," ","#"," ","#">>,
    <<"#"," ","#"," "," "," "," "," ","#"," ","#"," "," "," "," "," ","#"," ","#"," ","#">>,
    <<"#"," ","#","#","#","#","#"," ","#"," ","#","#","#","#","#"," ","#"," ","#"," ","#">>,
    <<"#"," "," "," "," "," "," "," ","#"," "," "," "," "," "," "," ","#"," "," "," ","E","#">>,
    <<"#","#","#","#","#","#","#","#","#","#","#","#","#","#","#","#","#","#","#","#">>
>>

\* ---------------------------------------------------------------- Option
\* Option<T> is a sequence of at most one element.
None == <<>>
Some(v) == <<v>>
is_some(o) == Len(o) = 1
unwrap(o) == o[1]

\* The path left in the order the walk built it, from end back to start.
Reverse_forgotten(s) == s

\* vec.reverse()
Reverse(s) == [i \in 1..Len(s) |-> s[Len(s) + 1 - i]]

\* ------------------------------------------------------------ constructor
\* vec![vec![Cell::Empty; width]; height] with the border set to Wall.
BorderGrid(w, h) ==
    [y \in 0..(h - 1) |-> [x \in 0..(w - 1) |->
        IF x = 0 \/ x = w - 1 \/ y = 0 \/ y = h - 1 THEN "Wall" ELSE "Empty"]]

\* match ch { '#' => Wall, 'S' => Start, 'E' => End, _ => Empty }
CellOfChar(ch) ==
    CASE ch = "#" -> "Wall"
      [] ch = "S" -> "Start"
      [] ch = "E" -> "End"
      [] OTHER -> "Empty"

\* The layout strings written over the grid, where y < height and x < width.
LayoutGrid(g, w, h) ==
    [y \in 0..(h - 1) |-> [x \in 0..(w - 1) |->
        IF y < Len(maze_layout) /\ x < Len(maze_layout[y + 1])
        THEN CellOfChar(maze_layout[y + 1][x + 1])
        ELSE g[y][x]]]

\* update_player_position that clears the old cell to Empty even on start_pos.
update_player_position_never_start(self, new_pos) ==
    LET old == self.player_pos
        g1 == [self.grid EXCEPT ![old.y][old.x] = "Empty"]
        g2 == [g1 EXCEPT ![new_pos.y][new_pos.x] = "Player"]
    IN  [self EXCEPT !.grid = g2,
                     !.player_pos = new_pos,
                     !.game_won = IF new_pos = self.end_pos THEN TRUE ELSE self.game_won]

\* update_player_position that leaves the old cell as it is.
update_player_position_keeps_old(self, new_pos) ==
    [self EXCEPT !.grid = [self.grid EXCEPT ![new_pos.y][new_pos.x] = "Player"],
                 !.player_pos = new_pos,
                 !.game_won = IF new_pos = self.end_pos THEN TRUE ELSE self.game_won]

\* update_player_position without the win check: game_won is never set.
update_player_position_no_win(self, new_pos) ==
    LET old == self.player_pos
        g1 == [self.grid EXCEPT ![old.y][old.x] =
                  IF old = self.start_pos THEN "Start" ELSE "Empty"]
        g2 == [g1 EXCEPT ![new_pos.y][new_pos.x] = "Player"]
    IN  [self EXCEPT !.grid = g2, !.player_pos = new_pos]

\* fn update_player_position(&mut self, new_pos: Position)
update_player_position(self, new_pos) ==
    LET old == self.player_pos
        g1 == [self.grid EXCEPT ![old.y][old.x] =
                  IF old = self.start_pos THEN "Start" ELSE "Empty"]
        g2 == [g1 EXCEPT ![new_pos.y][new_pos.x] = "Player"]
    IN  [self EXCEPT !.grid = g2,
                     !.player_pos = new_pos,
                     !.game_won = IF new_pos = self.end_pos THEN TRUE ELSE self.game_won]

\* new without the closing update_player_position(start_pos) call: the
\* player is never drawn into the grid.
new_without_player(w, h) ==
    LET grid1 == LayoutGrid(BorderGrid(w, h), w, h)
        start == Position(1, 1)
        end == Position(w - 2, h - 2)
        grid2 == [grid1 EXCEPT ![start.y][start.x] = "Start"]
        grid3 == [grid2 EXCEPT ![end.y][end.x] = "End"]
    IN  [grid |-> grid3,
         player_pos |-> start,
         start_pos |-> start,
         end_pos |-> end,
         width |-> w,
         height |-> h,
         show_path |-> FALSE,
         path_positions |-> <<>>,
         game_won |-> FALSE]

\* fn new(width: usize, height: usize) -> Self, for width >= 3 and height >= 3
new(w, h) ==
    LET grid1 == LayoutGrid(BorderGrid(w, h), w, h)
        start == Position(1, 1)
        end == Position(w - 2, h - 2)
        grid2 == [grid1 EXCEPT ![start.y][start.x] = "Start"]
        grid3 == [grid2 EXCEPT ![end.y][end.x] = "End"]
        game == [grid |-> grid3,
                 player_pos |-> start,
                 start_pos |-> start,
                 end_pos |-> end,
                 width |-> w,
                 height |-> h,
                 show_path |-> FALSE,
                 path_positions |-> <<>>,
                 game_won |-> FALSE]
    IN  update_player_position(game, start)

\* --------------------------------------------------------------- movement
\* can_move with `Cell::Empty => true, _ => false`: only Empty is traversable.
can_move_only_empty(self, pos) ==
    IF pos.x >= self.width \/ pos.y >= self.height
    THEN FALSE
    ELSE self.grid[pos.y][pos.x] = "Empty"

\* can_move with `Cell::Wall | Cell::Player => false`: the occupied cell blocks.
can_move_rejects_player(self, pos) ==
    IF pos.x >= self.width \/ pos.y >= self.height
    THEN FALSE
    ELSE self.grid[pos.y][pos.x] \notin {"Wall", "Player"}

\* fn can_move(&self, pos: Position) -> bool
can_move(self, pos) ==
    IF pos.x >= self.width \/ pos.y >= self.height
    THEN FALSE
    ELSE self.grid[pos.y][pos.x] # "Wall"

\* move_player without the `if self.game_won { return false; }` guard.
move_player_ignores_won(self, mdx, mdy) ==
    LET new_x == self.player_pos.x + mdx
        new_y == self.player_pos.y + mdy
        new_pos == Position(new_x, new_y)
    IN  IF new_x >= 0 /\ new_y >= 0
           /\ new_pos.x < self.width /\ new_pos.y < self.height
           /\ can_move(self, new_pos)
        THEN [self |-> update_player_position(self, new_pos), ret |-> TRUE]
        ELSE [self |-> self, ret |-> FALSE]

\* fn move_player(&mut self, dx: i32, dy: i32) -> bool: the game after the
\* call and the value returned.
move_player(self, mdx, mdy) ==
    IF self.game_won
    THEN [self |-> self, ret |-> FALSE]
    ELSE LET new_x == self.player_pos.x + mdx
             new_y == self.player_pos.y + mdy
             new_pos == Position(new_x, new_y)
         IN  IF new_x >= 0 /\ new_y >= 0
                /\ new_pos.x < self.width /\ new_pos.y < self.height
                /\ can_move(self, new_pos)
             THEN [self |-> update_player_position(self, new_pos), ret |-> TRUE]
             ELSE [self |-> self, ret |-> FALSE]

\* fn has_won(&self) -> bool
has_won(self) == self.game_won

\* ------------------------------------------------------------ path finder
\* let directions = [(0, -1), (0, 1), (-1, 0), (1, 0)];
directions == <<<<0, -1>>, <<0, 1>>, <<-1, 0>>, <<1, 0>>>>

\* Visit without the !visited.contains(&new_pos) test: cells are enqueued again.
Visit_ignores_visited(self, current, st, d) ==
    LET x == current.x + d[1]
        y == current.y + d[2]
        new_pos == Position(x, y)
    IN  IF x >= 0 /\ y >= 0
           /\ new_pos.x < self.width /\ new_pos.y < self.height
           /\ can_move(self, new_pos)
        THEN [st EXCEPT !.queue = Append(st.queue, new_pos),
                        !.visited = st.visited \cup {new_pos},
                        !.parent = [st.parent EXCEPT ![y][x] = Some(current)]]
        ELSE st

\* Visit without the can_move(new_pos) test: the search walks through walls.
Visit_ignores_walls(self, current, st, d) ==
    LET x == current.x + d[1]
        y == current.y + d[2]
        new_pos == Position(x, y)
    IN  IF x >= 0 /\ y >= 0
           /\ new_pos.x < self.width /\ new_pos.y < self.height
           /\ new_pos \notin st.visited
        THEN [st EXCEPT !.queue = Append(st.queue, new_pos),
                        !.visited = st.visited \cup {new_pos},
                        !.parent = [st.parent EXCEPT ![y][x] = Some(current)]]
        ELSE st

\* The body of the loop over directions: one neighbour of current examined,
\* on the search state st (queue, visited, parent).
Visit(self, current, st, d) ==
    LET x == current.x + d[1]
        y == current.y + d[2]
        new_pos == Position(x, y)
    IN  IF x >= 0 /\ y >= 0
           /\ new_pos.x < self.width /\ new_pos.y < self.height
           /\ can_move(self, new_pos)
           /\ new_pos \notin st.visited
        THEN [st EXCEPT !.queue = Append(st.queue, new_pos),
                        !.visited = st.visited \cup {new_pos},
                        !.parent = [st.parent EXCEPT ![y][x] = Some(current)]]
        ELSE st

\* for &(dx, dy) in &directions { ... }
RECURSIVE ForDirections(_, _, _, _)
ForDirections(self, current, st, i) ==
    IF i > Len(directions)
    THEN st
    ELSE ForDirections(self, current, Visit(self, current, st, directions[i]), i + 1)

\* One turn of `while step != self.start_pos { path.push(step);
\* step = parent[step.y][step.x].unwrap(); }` on the walk state wk: the loop
\* ends (done) at start_pos, and with fault set when unwrap() meets None.
WalkStep(self, parent, wk) ==
    IF wk.done
    THEN wk
    ELSE IF wk.step = self.start_pos
         THEN [wk EXCEPT !.done = TRUE]
         ELSE IF ~is_some(parent[wk.step.y][wk.step.x])
              THEN [wk EXCEPT !.path = Append(wk.path, wk.step),
                              !.fault = TRUE,
                              !.done = TRUE]
              ELSE [wk EXCEPT !.path = Append(wk.path, wk.step),
                              !.step = unwrap(parent[wk.step.y][wk.step.x])]

\* At most n turns of the walk, one after the other, stopping when it is done.
RECURSIVE WalkLoop(_, _, _, _)
WalkLoop(self, parent, wk, n) ==
    IF n = 0 \/ wk.done THEN wk
    ELSE IF n = 1 THEN WalkStep(self, parent, wk)
    ELSE LET half == WalkLoop(self, parent, wk, n \div 2)
         IN  IF half.done THEN half
             ELSE WalkLoop(self, parent, half, n - (n \div 2))

\* The path rebuilt from end_pos: a path holds each cell at most once, so
\* width * height + 1 turns end the walk.
WalkParents(self, parent, current) ==
    WalkLoop(self, parent,
        [step |-> current, path |-> <<>>, fault |-> FALSE, done |-> FALSE],
        self.width * self.height + 1)

\* One turn of `while let Some(current) = queue.pop_front() { ... }` on the
\* search state st: the loop ends (done) with None when the queue is empty and
\* with the rebuilt path when end_pos is popped; otherwise the neighbours of
\* the popped cell are examined. pops counts the cells popped.
SearchStep(self, st) ==
    IF st.done
    THEN st
    ELSE IF st.queue = <<>>
         THEN [st EXCEPT !.done = TRUE, !.result = None]
         ELSE LET current == Head(st.queue)
                  popped == [st EXCEPT !.queue = Tail(st.queue), !.pops = st.pops + 1]
              IN  IF current = self.end_pos
                  THEN LET walk == WalkParents(self, st.parent, current)
                       IN  [popped EXCEPT !.done = TRUE,
                                          !.fault = walk.fault \/ ~walk.done,
                                          !.result = Some(Reverse(walk.path))]
                  ELSE ForDirections(self, current, popped, 1)

\* At most n turns of the search loop, one after the other, stopping when it
\* is done.
RECURSIVE SearchLoop(_, _, _)
SearchLoop(self, st, n) ==
    IF n = 0 \/ st.done THEN st
    ELSE IF n = 1 THEN SearchStep(self, st)
    ELSE LET half == SearchLoop(self, st, n \div 2)
         IN  IF half.done THEN half
             ELSE SearchLoop(self, half, n - (n \div 2))

\* The search state find_shortest_path starts from.
SearchInit(self) ==
    [queue |-> <<self.start_pos>>,
     visited |-> {self.start_pos},
     parent |-> [y \in 0..(self.height - 1) |-> [x \in 0..(self.width - 1) |-> None]],
     done |-> FALSE,
     fault |-> FALSE,
     result |-> None,
     pops |-> 0]

\* The search state after the loop has run: every cell enters the queue at
\* most once, so width * height + 1 turns empty it.
Search(self) == SearchLoop(self, SearchInit(self), self.width * self.height + 1)

\* fn find_shortest_path(&self) -> Option<Vec<Position>>, with fault set when
\* the call panics instead of returning.
find_shortest_path(self) ==
    LET st == Search(self)
    IN  [fault |-> st.fault \/ ~st.done, result |-> st.result]

\* ----------------------------------------------------------- path display
\* display_path that sets show_path and forgets to store the path.
display_path_drops_path(self) ==
    LET found == find_shortest_path(self)
    IN  IF is_some(found.result)
        THEN [self |-> [self EXCEPT !.show_path = TRUE], fault |-> found.fault]
        ELSE [self |-> self, fault |-> found.fault]

\* display_path that sets show_path whether or not a path was found.
display_path_always_shows(self) ==
    LET found == find_shortest_path(self)
    IN  [self |-> [self EXCEPT !.path_positions =
                                  IF is_some(found.result) THEN unwrap(found.result) ELSE <<>>,
                               !.show_path = TRUE],
         fault |-> found.fault]

\* fn display_path(&mut self)
display_path(self) ==
    LET found == find_shortest_path(self)
    IN  IF is_some(found.result)
        THEN [self |-> [self EXCEPT !.path_positions = unwrap(found.result),
                                    !.show_path = TRUE],
              fault |-> found.fault]
        ELSE [self |-> self, fault |-> found.fault]

\* clear_path that flips show_path instead of clearing it.
clear_path_flips(self) ==
    [self EXCEPT !.show_path = ~self.show_path, !.path_positions = <<>>]

\* clear_path without path_positions.clear().
clear_path_keeps_positions(self) ==
    [self EXCEPT !.show_path = FALSE]

\* fn clear_path(&mut self)
clear_path(self) ==
    [self EXCEPT !.show_path = FALSE, !.path_positions = <<>>]

\* fn toggle_path(&mut self)
toggle_path(self) ==
    IF self.show_path
    THEN [self |-> clear_path(self), fault |-> FALSE]
    ELSE display_path(self)

\* reset_game that rebuilds the maze and keeps the path display.
reset_game_keeps_path(self) ==
    [new(self.width, self.height) EXCEPT !.show_path = self.show_path,
                                         !.path_positions = self.path_positions]

\* fn reset_game(&mut self)
reset_game(self) == new(self.width, self.height)

\* ------------------------------------------------------------------ state
VARIABLES
    grid, player_pos, start_pos, end_pos, width, height,
    show_path, path_positions, game_won,
    aborted,      \* the process has panicked
    op,           \* the last operation called
    dx, dy,       \* the arguments of the last move_player call
    ret,          \* the value the last move_player call returned
    pre           \* the game as it was before the last operation

vars == <<grid, player_pos, start_pos, end_pos, width, height,
          show_path, path_positions, game_won, aborted, op, dx, dy, ret, pre>>

\* The MazeGame struct as one record.
Self ==
    [grid |-> grid, player_pos |-> player_pos, start_pos |-> start_pos,
     end_pos |-> end_pos, width |-> width, height |-> height,
     show_path |-> show_path, path_positions |-> path_positions,
     game_won |-> game_won]

Install(s) ==
    /\ grid' = s.grid
    /\ player_pos' = s.player_pos
    /\ start_pos' = s.start_pos
    /\ end_pos' = s.end_pos
    /\ width' = s.width
    /\ height' = s.height
    /\ show_path' = s.show_path
    /\ path_positions' = s.path_positions
    /\ game_won' = s.game_won

Constructed(s) ==
    /\ grid = s.grid
    /\ player_pos = s.player_pos
    /\ start_pos = s.start_pos
    /\ end_pos = s.end_pos
    /\ width = s.width
    /\ height = s.height
    /\ show_path = s.show_path
    /\ path_positions = s.path_positions
    /\ game_won = s.game_won
    /\ aborted = FALSE
    /\ op = "new"
    /\ dx = 0
    /\ dy = 0
    /\ ret = FALSE
    /\ pre = s

\* main(): let mut game = MazeGame::new(width, height);
Init == Constructed(new(MainWidth, MainHeight))

\* A grid of ArbW x ArbH cells with an arbitrary wall layout: start and end
\* placed as the constructor places them, at most MaxOpen further cells open
\* (Path where x + y is even, Empty elsewhere), every other cell Wall, the
\* border included.
ArbStart == Position(1, 1)
ArbEnd == Position(ArbW - 2, ArbH - 2)
ArbFree == {p \in [x : 0..(ArbW - 1), y : 0..(ArbH - 1)] : p # ArbStart /\ p # ArbEnd}
ArbOpenSets == {{}} \cup {{f[i] : i \in 1..MaxOpen} : f \in [1..MaxOpen -> ArbFree]}

ArbGame(open) ==
    update_player_position(
        [grid |-> [y \in 0..(ArbH - 1) |-> [x \in 0..(ArbW - 1) |->
                      IF Position(x, y) = ArbStart THEN "Start"
                      ELSE IF Position(x, y) = ArbEnd THEN "End"
                      ELSE IF Position(x, y) \in open
                           THEN (IF (x + y) % 2 = 0 THEN "Path" ELSE "Empty")
                      ELSE "Wall"]],
         player_pos |-> ArbStart,
         start_pos |-> ArbStart,
         end_pos |-> ArbEnd,
         width |-> ArbW,
         height |-> ArbH,
         show_path |-> FALSE,
         path_positions |-> <<>>,
         game_won |-> FALSE],
        ArbStart)

InitArb == \E open \in ArbOpenSets : Constructed(ArbGame(open))

\* ---------------------------------------------------------------- actions
\* game.move_player(0, -1) / (0, 1) / (-1, 0) / (1, 0): the W, S, A, D keys.
MovePlayer ==
    \E d \in {<<0, -1>>, <<0, 1>>, <<-1, 0>>, <<1, 0>>} :
        /\ ~aborted
        /\ LET r == move_player(Self, d[1], d[2])
           IN  Install(r.self) /\ ret' = r.ret
        /\ op' = "move_player" /\ dx' = d[1] /\ dy' = d[2]
        /\ pre' = Self
        /\ aborted' = aborted

\* game.toggle_path(): the P key.
TogglePath ==
    /\ ~aborted
    /\ LET r == toggle_path(Self)
       IN  Install(r.self) /\ aborted' = r.fault
    /\ op' = "toggle_path" /\ dx' = 0 /\ dy' = 0 /\ ret' = FALSE
    /\ pre' = Self

DisplayPath ==
    /\ ~aborted
    /\ LET r == display_path(Self)
       IN  Install(r.self) /\ aborted' = r.fault
    /\ op' = "display_path" /\ dx' = 0 /\ dy' = 0 /\ ret' = FALSE
    /\ pre' = Self

ClearPath ==
    /\ ~aborted
    /\ Install(clear_path(Self))
    /\ op' = "clear_path" /\ dx' = 0 /\ dy' = 0 /\ ret' = FALSE
    /\ pre' = Self
    /\ aborted' = aborted

\* game.reset_game(): the R key.
ResetGame ==
    /\ ~aborted
    /\ Install(reset_game(Self))
    /\ op' = "reset_game" /\ dx' = 0 /\ dy' = 0 /\ ret' = FALSE
    /\ pre' = Self
    /\ aborted' = aborted

Next == MovePlayer \/ TogglePath \/ DisplayPath \/ ClearPath \/ ResetGame

Spec == Init /\ [][Next]_vars

\* The search run on arbitrary grids.
SpecArb == InitArb /\ [][Next]_vars

\* MazeGame::new(width, height) for every width and height from 3 up.
InitDims == \E w \in 3..MaxW : \E h \in 3..MaxH : Constructed(new(w, h))

SpecDims == InitDims /\ [][Next]_vars

\* The default game and the arbitrary grids together.
InitAll == Init \/ InitArb

SpecAll == InitAll /\ [][Next]_vars

\* ================================================================= claims
\* Helpers of the claims.

\* The cell the last move_player call aimed at, from the game before it.
TargetX == pre.player_pos.x + dx
TargetY == pre.player_pos.y + dy

\* The positions of a w x h grid.
Cells(w, h) == {Position(c[1], c[2]) : c \in (0..(w - 1)) \X (0..(h - 1))}

\* The in-bounds, non-Wall cells of a game.
OpenCells(self) ==
    {p \in Cells(self.width, self.height) : self.grid[p.y][p.x] # "Wall"}

\* Two positions one unit step apart in one cardinal direction.
UnitStep(p, q) ==
    \/ (p.x = q.x /\ (p.y = q.y + 1 \/ q.y = p.y + 1))
    \/ (p.y = q.y /\ (p.x = q.x + 1 \/ q.x = p.x + 1))

\* The cells of Open one unit step from a cell of S, and S itself.
Grow(Open, S) ==
    {q \in Open :
        \/ q \in S
        \/ Position(q.x + 1, q.y) \in S
        \/ Position(q.x - 1, q.y) \in S
        \/ Position(q.x, q.y + 1) \in S
        \/ Position(q.x, q.y - 1) \in S}

\* The least number of unit steps over open cells from the cells of S to
\* end_pos, counted from k; -1 when end_pos cannot be reached.
RECURSIVE HopsFrom(_, _, _, _)
HopsFrom(Open, target, S, k) ==
    IF target \in S THEN k
    ELSE LET T == Grow(Open, S)
         IN  IF T = S THEN -1 ELSE HopsFrom(Open, target, T, k + 1)

MinHops(self) ==
    HopsFrom(OpenCells(self), self.end_pos, {self.start_pos} \cap OpenCells(self), 0)

EndReachable(self) == MinHops(self) >= 0

\* The number of cells of the grid holding a value.
CountCells(g, w, h, value) ==
    Cardinality({p \in Cells(w, h) : g[p.y][p.x] = value})

\* ---------------------------------------------------------------------- C1
MoveRejected ==
    \/ pre.game_won
    \/ TargetX < 0 \/ TargetY < 0
    \/ TargetX >= pre.width \/ TargetY >= pre.height
    \/ pre.grid[TargetY][TargetX] = "Wall"

\* C1: a move_player call made when the game is already won, or whose target
\* is negative, out of the grid or a Wall, returns false and leaves grid,
\* player_pos, game_won, show_path and path_positions as they were.
C1_RejectedMoveUnchanged ==
    (op = "move_player" /\ MoveRejected) =>
        /\ ret = FALSE
        /\ grid = pre.grid
        /\ player_pos = pre.player_pos
        /\ game_won = pre.game_won
        /\ show_path = pre.show_path
        /\ path_positions = pre.path_positions
        /\ Self = pre
        /\ ~aborted

\* A move towards a negative coordinate was rejected in a game not yet won.
C1_Witness ==
    /\ op = "move_player"
    /\ ~pre.game_won
    /\ (TargetX < 0 \/ TargetY < 0)
    /\ ret = FALSE

\* ---------------------------------------------------------------------- C2
\* C2: a move onto end_pos makes has_won() true; from a won game every
\* operation but reset_game leaves has_won() true and the player on end_pos,
\* every move_player call returns false; has_won() turns false only by
\* reset_game, which does turn it false.
C2_WonIsSticky ==
    /\ (op = "move_player" /\ ret /\ player_pos = end_pos) => has_won(Self)
    /\ (pre.game_won /\ op # "reset_game" /\ op # "new") =>
          /\ has_won(Self)
          /\ pre.player_pos = pre.end_pos
          /\ player_pos = end_pos
          /\ (op = "move_player" => ret = FALSE)
    /\ (pre.game_won /\ ~has_won(Self)) => op = "reset_game"
    /\ (op = "reset_game") => ~has_won(Self)

\* A move_player call was made, and refused, in a won game.
C2_Witness ==
    /\ op = "move_player"
    /\ pre.game_won
    /\ has_won(Self)
    /\ player_pos = end_pos
    /\ ret = FALSE

\* ---------------------------------------------------------------------- C3
\* C3: on the default maze find_shortest_path returns a non-empty sequence
\* that starts one step from start (start excluded), ends at end, moves one
\* unit step at a time over in-bounds non-Wall cells, and is as long as the
\* least number of hops from start to end.
C3_DefaultPathShortest ==
    LET found == find_shortest_path(Self)
        path == unwrap(found.result)
    IN  /\ ~found.fault
        /\ is_some(found.result)
        /\ Len(path) > 0
        /\ UnitStep(start_pos, path[1])
        /\ \A i \in 1..Len(path) : path[i] # start_pos
        /\ path[Len(path)] = end_pos
        /\ \A i \in 1..(Len(path) - 1) : UnitStep(path[i], path[i + 1])
        /\ \A i \in 1..Len(path) : path[i] \in OpenCells(Self)
        /\ Len(path) = MinHops(Self)
        /\ width = MainWidth /\ height = MainHeight
        /\ start_pos = Position(1, 1) /\ end_pos = Position(18, 13)

\* The path was displayed while the player stood away from start.
C3_Witness ==
    /\ op = "display_path"
    /\ player_pos # start_pos
    /\ show_path
    /\ path_positions = unwrap(find_shortest_path(Self).result)
    /\ Len(path_positions) = MinHops(Self)

\* ---------------------------------------------------------------------- C4
\* C4: in every reachable state can_move(player_pos) is true.
C4_PlayerOnOpenCell ==
    /\ can_move(Self, player_pos)
    /\ player_pos.x >= 0 /\ player_pos.x < width
    /\ player_pos.y >= 0 /\ player_pos.y < height
    /\ grid[player_pos.y][player_pos.x] # "Wall"

\* The player has moved several times and stands away from start.
C4_Witness ==
    /\ op = "move_player"
    /\ ret
    /\ pre.player_pos # start_pos
    /\ player_pos # start_pos
    /\ can_move(Self, player_pos)

\* ---------------------------------------------------------------------- C5
\* C5: every cell of row 0, row height-1, column 0 and column width-1 of the
\* constructed grid is Wall, in every reachable state.
C5_BorderIsWall ==
    \A p \in Cells(width, height) :
        (p.x = 0 \/ p.x = width - 1 \/ p.y = 0 \/ p.y = height - 1) =>
            grid[p.y][p.x] = "Wall"

\* ---------------------------------------------------------------------- C6
\* C6 as stated: right after construction and right after reset_game exactly
\* one cell is Start and exactly one is End.
C6_OneStartOneEnd ==
    (op \in {"new", "reset_game"}) =>
        /\ CountCells(grid, width, height, "Start") = 1
        /\ CountCells(grid, width, height, "End") = 1

\* C6 as amended: right after construction and right after reset_game of the
\* default game exactly one cell is End, the cell at end_pos; no cell is
\* Start, the cell at start_pos holding Player.
C6_OneEndNoStart ==
    (op \in {"new", "reset_game"}) =>
        /\ CountCells(grid, width, height, "End") = 1
        /\ grid[end_pos.y][end_pos.x] = "End"
        /\ CountCells(grid, width, height, "Start") = 0
        /\ grid[start_pos.y][start_pos.x] = "Player"

\* The game was reset after the player had left start.
C6_Witness ==
    /\ op = "reset_game"
    /\ pre.player_pos # pre.start_pos
    /\ CountCells(pre.grid, pre.width, pre.height, "Start") = 1
    /\ CountCells(grid, width, height, "Start") = 0

\* ---------------------------------------------------------------------- C7
\* C7: reset_game yields the freshly constructed game of the same width and
\* height: the player on start, has_won() false, the path hidden, the stored
\* path empty, the grid that of the constructor.
C7_ResetIsFresh ==
    (op = "reset_game") =>
        /\ player_pos = start_pos
        /\ start_pos = pre.start_pos
        /\ ~has_won(Self)
        /\ ~show_path
        /\ path_positions = <<>>
        /\ width = pre.width /\ height = pre.height
        /\ grid = new(pre.width, pre.height).grid
        /\ Self = new(pre.width, pre.height)

\* The game was reset when won, with the path shown.
C7_Witness ==
    /\ op = "reset_game"
    /\ pre.game_won
    /\ pre.show_path
    /\ pre.path_positions # <<>>
    /\ ~has_won(Self)

\* ---------------------------------------------------------------------- C8
\* C8: two consecutive toggle_path calls return the game to the state before
\* them: show_path, path_positions, grid, player_pos and game_won.
C8_ToggleTwice ==
    [][(op = "toggle_path" /\ op' = "toggle_path") =>
          /\ show_path' = pre.show_path
          /\ path_positions' = pre.path_positions
          /\ grid' = pre.grid
          /\ player_pos' = pre.player_pos
          /\ game_won' = pre.game_won
          /\ Self' = pre
          /\ ~aborted']_vars

\* toggle_path was called with the path shown, and hid it; the next
\* toggle_path shows it again.
C8_Witness ==
    /\ op = "toggle_path"
    /\ pre.show_path
    /\ pre.path_positions # <<>>
    /\ ~show_path
    /\ toggle_path(Self).self = pre

\* ---------------------------------------------------------------------- C9
\* C9: can_move(pos) is true exactly when pos.x < width, pos.y < height and
\* the cell at pos is not Wall: false out of bounds and on Wall, true on
\* Empty, Start, End, Path and Player.
C9_CanMoveIffOpen ==
    \A pos \in Cells(width + 2, height + 2) :
        /\ can_move(Self, pos) <=>
              (pos.x < width /\ pos.y < height /\ grid[pos.y][pos.x] # "Wall")
        /\ (pos.x >= width \/ pos.y >= height) => ~can_move(Self, pos)
        /\ (pos.x < width /\ pos.y < height) =>
              (can_move(Self, pos) <=>
                  grid[pos.y][pos.x] \in {"Empty", "Start", "End", "Path", "Player"})

\* A grid holding Path, Start and Player cells at once, all traversable.
C9_Witness ==
    /\ \E p \in OpenCells(Self) : grid[p.y][p.x] = "Path" /\ can_move(Self, p)
    /\ \E p \in OpenCells(Self) : grid[p.y][p.x] = "Start" /\ can_move(Self, p)
    /\ grid[player_pos.y][player_pos.x] = "Player"
    /\ op = "move_player"

\* --------------------------------------------------------------------- C10
\* C10: on an arbitrary grid find_shortest_path returns none exactly when end
\* cannot be reached from start over 4-connected in-bounds non-Wall cells, and
\* then display_path and toggle_path end without fault, show_path false and
\* path_positions empty.
C10_NoneIffUnreachable ==
    /\ ~find_shortest_path(Self).fault
    /\ (find_shortest_path(Self).result = None) <=> ~EndReachable(Self)
    /\ (op \in {"display_path", "toggle_path"} /\ ~EndReachable(pre)) =>
          /\ ~aborted
          /\ ~show_path
          /\ path_positions = <<>>

\* toggle_path was called on a grid whose end is walled off, after a move.
C10_Witness ==
    /\ op = "toggle_path"
    /\ ~EndReachable(pre)
    /\ pre.player_pos # pre.start_pos
    /\ find_shortest_path(pre).result = None
    /\ ~show_path

\* --------------------------------------------------------------------- C11
\* C11: in every maze the constructor builds with width >= 3 and height >= 3
\* end_pos can be reached from start_pos over 4-connected non-Wall cells, and
\* find_shortest_path returns a path, never none.
C11_ConstructedEndReachable ==
    /\ EndReachable(Self)
    /\ is_some(find_shortest_path(Self).result)

\* --------------------------------------------------------------------- C16
\* C16: for every width >= 3 and height >= 3 construction ends without abort
\* in a fresh Playing state: start (1,1), end (width-2, height-2), the player
\* on start, has_won() false, the path hidden and the stored path empty.
C16_ConstructedIsPlaying ==
    (op = "new") =>
        /\ ~aborted
        /\ start_pos = Position(1, 1)
        /\ end_pos = Position(width - 2, height - 2)
        /\ player_pos = start_pos
        /\ ~has_won(Self)
        /\ ~show_path
        /\ path_positions = <<>>

\* --------------------------------------------------------------------- C12
\* The last move_player call was made in a game not won, towards an in-bounds
\* cell that was not Wall.
MoveAccepted ==
    /\ op = "move_player"
    /\ ~pre.game_won
    /\ TargetX >= 0 /\ TargetY >= 0
    /\ TargetX < pre.width /\ TargetY < pre.height
    /\ pre.grid[TargetY][TargetX] # "Wall"

\* C12: a move_player call in a game not won towards an in-bounds non-Wall
\* cell returns true; afterwards player_pos is the target, the target cell is
\* Player, the cell left is Start if it was start_pos and Empty otherwise,
\* every other cell, show_path and path_positions are unchanged, and game_won
\* is true exactly when the target is end_pos.
C12_AcceptedMoveEffect ==
    MoveAccepted =>
        /\ ret = TRUE
        /\ player_pos = Position(TargetX, TargetY)
        /\ grid[TargetY][TargetX] = "Player"
        /\ grid[pre.player_pos.y][pre.player_pos.x] =
              (IF pre.player_pos = pre.start_pos THEN "Start" ELSE "Empty")
        /\ \A p \in Cells(width, height) :
              (p # pre.player_pos /\ p # player_pos) => grid[p.y][p.x] = pre.grid[p.y][p.x]
        /\ show_path = pre.show_path
        /\ path_positions = pre.path_positions
        /\ has_won(Self) <=> (player_pos = end_pos)
        /\ start_pos = pre.start_pos /\ end_pos = pre.end_pos
        /\ width = pre.width /\ height = pre.height
        /\ ~aborted

\* The player stepped off start_pos, with the path shown, onto a cell that is
\* not end_pos.
C12_Witness ==
    /\ MoveAccepted
    /\ pre.player_pos = pre.start_pos
    /\ grid[start_pos.y][start_pos.x] = "Start"
    /\ pre.show_path
    /\ ~has_won(Self)

\* --------------------------------------------------------------------- C13
\* C13: the stored path is empty whenever the path is not displayed, and
\* whenever it is displayed it is the sequence find_shortest_path returns.
C13_StoredPathMatches ==
    /\ ~show_path => path_positions = <<>>
    /\ show_path =>
          /\ is_some(find_shortest_path(Self).result)
          /\ path_positions = unwrap(find_shortest_path(Self).result)

\* The path is displayed, non-empty, and the player has moved since.
C13_Witness ==
    /\ show_path
    /\ path_positions # <<>>
    /\ op = "move_player"
    /\ ret
    /\ player_pos # start_pos

\* --------------------------------------------------------------------- C14
\* C14: clear_path called right after clear_path changes nothing, and
\* clear_path called with show_path false and path_positions empty changes
\* nothing.
C14_ClearIdempotent ==
    [][(op' = "clear_path" /\ (op = "clear_path" \/ (~show_path /\ path_positions = <<>>)))
          => (Self' = Self /\ ~aborted')]_vars

\* clear_path was called on a game whose path display was already cleared.
C14_Witness ==
    /\ op = "clear_path"
    /\ ~pre.show_path
    /\ pre.path_positions = <<>>
    /\ Self = pre
    /\ clear_path(Self) = Self

\* --------------------------------------------------------------------- C15
\* C15: in the default game has_won() is true exactly when player_pos equals
\* end_pos.
C15_WonIffOnEnd ==
    has_won(Self) <=> (player_pos = end_pos)

\* The player has reached end_pos and a later move was refused.
C15_Witness ==
    /\ has_won(Self)
    /\ player_pos = end_pos
    /\ op = "move_player"
    /\ pre.game_won

\* --------------------------------------------------------------------- C17
\* C17: find_shortest_path ends on every bounded grid: every cell enters the
\* queue at most once (the cells popped and those still queued are as many as
\* the cells visited), at most width * height cells are popped, the walk over
\* the parent links ends at start, and the result is a path or none.
C17_SearchTerminates ==
    LET st == Search(Self)
    IN  /\ st.done
        /\ ~st.fault
        /\ ~find_shortest_path(Self).fault
        /\ st.pops + Len(st.queue) = Cardinality(st.visited)
        /\ \A i, j \in 1..Len(st.queue) : st.queue[i] = st.queue[j] => i = j
        /\ st.pops <= width * height
        /\ st.visited \subseteq OpenCells(Self)
        /\ (is_some(st.result) \/ st.result = None)
        /\ is_some(st.result) =>
              /\ Len(unwrap(st.result)) <= width * height
              /\ (Len(unwrap(st.result)) > 0 =>
                    UnitStep(start_pos, unwrap(st.result)[1]))

\* A search that popped several cells and found a path of several steps.
C17_Witness ==
    /\ Search(Self).done
    /\ Search(Self).pops >= 4
    /\ is_some(Search(Self).result)
    /\ Len(unwrap(Search(Self).result)) >= 4
    /\ op = "display_path"

\* --------------------------------------------------------------------- C18
\* C18: in the default game the player stands strictly inside the outer ring:
\* 1 <= x <= width - 2 and 1 <= y <= height - 2.
C18_PlayerInsideRing ==
    /\ 1 <= player_pos.x /\ player_pos.x <= width - 2
    /\ 1 <= player_pos.y /\ player_pos.y <= height - 2

\* The player stands on end_pos, next to the open border cell (19,13), and a
\* move towards that cell was refused.
C18_Witness ==
    /\ op = "move_player"
    /\ dx = 1 /\ dy = 0
    /\ player_pos = end_pos
    /\ grid[player_pos.y][player_pos.x + 1] # "Wall"
    /\ player_pos.x + 1 = width - 1
    /\ ret = FALSE

\* --------------------------------------------------------------------- C19
\* C19: exactly one cell of the grid is Player, and it is the cell at
\* player_pos.
C19_OnePlayerCell ==
    /\ grid[player_pos.y][player_pos.x] = "Player"
    /\ CountCells(grid, width, height, "Player") = 1

\* The player has moved twice in a row.
C19_Witness ==
    /\ op = "move_player"
    /\ ret
    /\ pre.player_pos # pre.start_pos
    /\ player_pos # start_pos
    /\ CountCells(grid, width, height, "Player") = 1

\* --------------------------------------------------------------------- C20
\* The moves along path from position i on, made one after the other on the
\* game self: each returns true and brings the player to the path position,
\* and has_won() is true after the last one only.
RECURSIVE ReplayOK(_, _, _)
ReplayOK(self, path, i) ==
    IF i > Len(path)
    THEN TRUE
    ELSE LET r == move_player(self, path[i].x - self.player_pos.x,
                                    path[i].y - self.player_pos.y)
         IN  /\ ~has_won(self)
             /\ r.ret = TRUE
             /\ r.self.player_pos = path[i]
             /\ has_won(r.self) <=> (i = Len(path))
             /\ ReplayOK(r.self, path, i + 1)

\* C20: on a freshly constructed default game the sequence find_shortest_path
\* returns, replayed as unit moves, makes every move_player call return true;
\* has_won() is false before the last step and true after it.
C20_PathReplayWins ==
    (op \in {"new", "reset_game"}) =>
        /\ is_some(find_shortest_path(Self).result)
        /\ Len(unwrap(find_shortest_path(Self).result)) > 0
        /\ ReplayOK(Self, unwrap(find_shortest_path(Self).result), 1)

\* The last step of the path was made: the player came from the path's last
\* but one position onto end_pos and the game is won.
C20_Witness ==
    /\ op = "move_player"
    /\ ret
    /\ has_won(Self)
    /\ ~pre.game_won
    /\ LET path == unwrap(find_shortest_path(Self).result)
       IN  /\ Len(path) >= 2
           /\ pre.player_pos = path[Len(path) - 1]
           /\ player_pos = path[Len(path)]

====
